---- MODULE Spec2Model ----
(***************************************************************************)
(* Model of the PKI service of go-hsdp-api (package pki, services.go):     *)
(* the public CA/CRL fetches, the JSON operations, and the two decoders    *)
(* of IssueData.  A PEM text is modelled as a sequence of items (junk, an  *)
(* armored block with undecodable base64, or a well-formed block carrying  *)
(* a type tag and a DER payload); pem.Decode and the x509 parsers are      *)
(* modelled by what they do on such a text.                                *)
(***************************************************************************)
EXTENDS Integers, Sequences, FiniteSets, TLC

VARIABLES call, ret, issueData, cpc, cop, cblock, cret

vars == <<call, ret, issueData, cpc, cop, cblock, cret>>

seqVars == <<call, ret>>

concVars == <<issueData, cpc, cop, cblock, cret>>

\* ---------------------------------------------------------------- bounds
MaxBlocks == 2

MaxOptions == 1

NumCallers == 2

\* ------------------------------------------------------------ PEM texts
BlockTypes == {"CERTIFICATE", "X509 CRL", "RSA PRIVATE KEY", "EC PRIVATE KEY"}

\* What a DER payload is a valid encoding of.
Payloads == {"x509cert", "crl", "pkcs1", "sec1", "garbage"}

JunkItem == [kind |-> "junk", type |-> "-", der |-> "-"]

BadBase64Item == [kind |-> "badb64", type |-> "CERTIFICATE", der |-> "-"]

BlockItems == [kind : {"block"}, type : BlockTypes, der : Payloads]

Items == {JunkItem, BadBase64Item} \cup BlockItems

SeqsUpTo(S, n) == UNION {[1..k -> S] : k \in 0..n}

Buffers == SeqsUpTo(Items, MaxBlocks)

NilBlock == [type |-> "nil", der |-> "nil"]

\* encoding/pem Decode: the first well-formed block of the text, or nil.
\* Text before a BEGIN line is skipped, and a block that does not decode
\* is skipped too (Decode goes on with the rest of the input).
RECURSIVE PemDecode(_)
PemDecode(data) ==
    IF data = <<>> THEN NilBlock
    ELSE IF Head(data).kind = "block"
         THEN [type |-> Head(data).type, der |-> Head(data).der]
         ELSE PemDecode(Tail(data))

\* --------------------------------------------------------------- errors
NoErr == [id |-> "nil", wraps |-> "-"]

ErrCertificateExpected == [id |-> "ErrCertificateExpected", wraps |-> "-"]

ErrCRLExpected == [id |-> "ErrCRLExpected", wraps |-> "-"]

ErrInvalidPrivateKey == [id |-> "ErrInvalidPrivateKey", wraps |-> "-"]

ErrEmptyResult == [id |-> "ErrEmptyResult", wraps |-> "-"]

\* fmt.Errorf("<prefix>: %w", target)
Errorf(prefix, target) == [id |-> prefix, wraps |-> target.id]

\* errors.Is
ErrorsIs(e, target) == e = target \/ e.wraps = target.id

\* The error of a failed x509 parse.
DerError(parser) == [id |-> "x509", wraps |-> parser]

TransportError(what) == [id |-> "transport", wraps |-> what]

OptionError == [id |-> "option", wraps |-> "-"]

\* ------------------------------------------------------------- parsers
NilObj == [kind |-> "nil", from |-> "-"]

x509Parse(parser, valid, kind, der) ==
    IF der = valid
    THEN [obj |-> [kind |-> kind, from |-> der], err |-> NoErr]
    ELSE [obj |-> NilObj, err |-> DerError(parser)]

ParseCertificate(der) == x509Parse("ParseCertificate", "x509cert", "Certificate", der)

ParseCRL(der) == x509Parse("ParseCRL", "crl", "CertificateList", der)

ParsePKCS1PrivateKey(der) == x509Parse("ParsePKCS1PrivateKey", "pkcs1", "rsa.PrivateKey", der)

ParseECPrivateKey(der) == x509Parse("ParseECPrivateKey", "sec1", "ecdsa.PrivateKey", der)

\* ------------------------------------------------- requests and transport
NoReq == [built |-> FALSE, headers |-> {}]

NilResp == "nil"

\* An OptionFunc, by what it does to the request.
CallerOptionKinds == {"SetAuthorization", "Fail"}

\* func(req) { req.Header.Del("Authorization"); return nil }
DelAuthorization == "DelAuthorization"

OptionLists == SeqsUpTo(CallerOptionKinds, MaxOptions)

ApplyOption(fn, headers) ==
    CASE fn = "SetAuthorization" -> headers \cup {"Authorization"}
      [] fn = "DelAuthorization" -> headers \ {"Authorization"}
      [] OTHER -> headers

\* The request of an authenticated client, shaped by the options in the
\* order given; the first option that returns an error ends construction.
RECURSIVE ApplyOptions(_, _)
ApplyOptions(options, headers) ==
    IF options = <<>> THEN [req |-> [built |-> TRUE, headers |-> headers], err |-> NoErr]
    ELSE IF Head(options) = "Fail" THEN [req |-> NoReq, err |-> OptionError]
    ELSE ApplyOptions(Tail(options), ApplyOption(Head(options), headers))

newServiceRequest(method, path, options) ==
    ApplyOptions(options, {"Authorization", "Content-Type"})

TransportKinds == {"ok", "httpErr", "netErr", "empty"}

\* client.do: a response, a response with an error (an HTTP error status),
\* an error without response, or neither.
do(req, env) ==
    CASE env.transport = "httpErr" -> [resp |-> "response", err |-> TransportError("status")]
      [] env.transport = "netErr" -> [resp |-> NilResp, err |-> TransportError("net")]
      [] env.transport = "empty" -> [resp |-> NilResp, err |-> NoErr]
      [] OTHER -> [resp |-> "response", err |-> NoErr]

\* ----------------------------------------------------- operation results
\* What an operation returns (obj, block, resp, err) and what it did on the
\* way: the request it handed to the transport, whether it read the body,
\* whether it ran pem.Decode, and which DER parser it invoked.
Returned(obj, block, resp, err, sent, bodyRead, pemDecoded, derParsed) ==
    [returned |-> TRUE, obj |-> obj, block |-> block, resp |-> resp, err |-> err,
     sent |-> sent, bodyRead |-> bodyRead, pemDecoded |-> pemDecoded,
     derParsed |-> derParsed, panicked |-> FALSE]

NotCalled ==
    [returned |-> FALSE, obj |-> NilObj, block |-> NilBlock, resp |-> NilResp,
     err |-> NoErr, sent |-> NoReq, bodyRead |-> FALSE, pemDecoded |-> FALSE,
     derParsed |-> "none", panicked |-> FALSE]

\* getCA with the DER parse moved in front of the block-type check.
getCA_ParseBeforeTypeCheck(path, options, env) ==
    LET rq == newServiceRequest("GET", path, options)
        rs == do(rq.req, env)
        block == PemDecode(env.body)
        pub == ParseCertificate(block.der)
    IN  IF rq.err # NoErr
        THEN Returned(NilObj, NilBlock, NilResp, rq.err, NoReq, FALSE, FALSE, "none")
        ELSE IF rs.err # NoErr
        THEN Returned(NilObj, NilBlock, rs.resp, rs.err, rq.req, FALSE, FALSE, "none")
        ELSE IF rs.resp = NilResp
        THEN Returned(NilObj, NilBlock, NilResp, Errorf("getCA", ErrEmptyResult),
                      rq.req, FALSE, FALSE, "none")
        ELSE IF env.readFails
        THEN Returned(NilObj, NilBlock, rs.resp, TransportError("read"),
                      rq.req, TRUE, FALSE, "none")
        ELSE IF block = NilBlock
        THEN Returned(NilObj, NilBlock, rs.resp, ErrCertificateExpected,
                      rq.req, TRUE, TRUE, "none")
        ELSE IF pub.err # NoErr
        THEN Returned(NilObj, block, rs.resp, pub.err, rq.req, TRUE, TRUE,
                      "ParseCertificate")
        ELSE IF block.type # "CERTIFICATE"
        THEN Returned(NilObj, NilBlock, rs.resp, ErrCertificateExpected,
                      rq.req, TRUE, TRUE, "ParseCertificate")
        ELSE Returned(pub.obj, block, rs.resp, pub.err, rq.req, TRUE, TRUE,
                      "ParseCertificate")

getCA(path, options, env) ==
    LET rq == newServiceRequest("GET", path, options)
        rs == do(rq.req, env)
        block == PemDecode(env.body)
        pub == ParseCertificate(block.der)
    IN  IF rq.err # NoErr
        THEN Returned(NilObj, NilBlock, NilResp, rq.err, NoReq, FALSE, FALSE, "none")
        ELSE IF rs.err # NoErr
        THEN Returned(NilObj, NilBlock, rs.resp, rs.err, rq.req, FALSE, FALSE, "none")
        ELSE IF rs.resp = NilResp
        THEN Returned(NilObj, NilBlock, NilResp, Errorf("getCA", ErrEmptyResult),
                      rq.req, FALSE, FALSE, "none")
        ELSE IF env.readFails
        THEN Returned(NilObj, NilBlock, rs.resp, TransportError("read"),
                      rq.req, TRUE, FALSE, "none")
        ELSE IF block = NilBlock \/ block.type # "CERTIFICATE"
        THEN Returned(NilObj, NilBlock, rs.resp, ErrCertificateExpected,
                      rq.req, TRUE, TRUE, "none")
        ELSE Returned(pub.obj, block, rs.resp, pub.err, rq.req, TRUE, TRUE,
                      "ParseCertificate")

\* GetRootCA with the header-removing option put in front of the caller's.
GetRootCA_DelFirst(options, env) ==
    getCA("core/pki/api/root/ca/pem", <<DelAuthorization>> \o options, env)

GetRootCA(options, env) ==
    getCA("core/pki/api/root/ca/pem", Append(options, DelAuthorization), env)

GetPolicyCA(options, env) ==
    getCA("core/pki/api/policy/ca/pem", Append(options, DelAuthorization), env)

\* getCRL with getCA's block-type tag left in place.
getCRL_CertificateTag(path, options, env) ==
    LET rq == newServiceRequest("GET", path, options)
        rs == do(rq.req, env)
        block == PemDecode(env.body)
        pub == ParseCRL(block.der)
    IN  IF rq.err # NoErr
        THEN Returned(NilObj, NilBlock, NilResp, rq.err, NoReq, FALSE, FALSE, "none")
        ELSE IF rs.err # NoErr
        THEN Returned(NilObj, NilBlock, rs.resp, rs.err, rq.req, FALSE, FALSE, "none")
        ELSE IF rs.resp = NilResp
        THEN Returned(NilObj, NilBlock, rs.resp, Errorf("getCRL", ErrEmptyResult),
                      rq.req, FALSE, FALSE, "none")
        ELSE IF env.readFails
        THEN Returned(NilObj, NilBlock, rs.resp, TransportError("read"),
                      rq.req, TRUE, FALSE, "none")
        ELSE IF block = NilBlock \/ block.type # "CERTIFICATE"
        THEN Returned(NilObj, NilBlock, rs.resp, ErrCRLExpected,
                      rq.req, TRUE, TRUE, "none")
        ELSE Returned(pub.obj, block, rs.resp, pub.err, rq.req, TRUE, TRUE, "ParseCRL")

getCRL(path, options, env) ==
    LET rq == newServiceRequest("GET", path, options)
        rs == do(rq.req, env)
        block == PemDecode(env.body)
        pub == ParseCRL(block.der)
    IN  IF rq.err # NoErr
        THEN Returned(NilObj, NilBlock, NilResp, rq.err, NoReq, FALSE, FALSE, "none")
        ELSE IF rs.err # NoErr
        THEN Returned(NilObj, NilBlock, rs.resp, rs.err, rq.req, FALSE, FALSE, "none")
        ELSE IF rs.resp = NilResp
        THEN Returned(NilObj, NilBlock, rs.resp, Errorf("getCRL", ErrEmptyResult),
                      rq.req, FALSE, FALSE, "none")
        ELSE IF env.readFails
        THEN Returned(NilObj, NilBlock, rs.resp, TransportError("read"),
                      rq.req, TRUE, FALSE, "none")
        ELSE IF block = NilBlock \/ block.type # "X509 CRL"
        THEN Returned(NilObj, NilBlock, rs.resp, ErrCRLExpected,
                      rq.req, TRUE, TRUE, "none")
        ELSE Returned(pub.obj, block, rs.resp, pub.err, rq.req, TRUE, TRUE, "ParseCRL")

GetRootCRL(options, env) ==
    getCRL("core/pki/api/root/crl/pem", Append(options, DelAuthorization), env)

GetPolicyCRL(options, env) ==
    getCRL("core/pki/api/policy/crl/pem", Append(options, DelAuthorization), env)

\* ------------------------------------------------------------ IssueData
KeyTypeTags == {"rsa", "ec", "dsa", ""}

\* GetCertificate that lets a text without any block pass as "nothing to do".
GetCertificate_NilBlockOK(d) ==
    LET block == PemDecode(d.Certificate)
        pub == ParseCertificate(block.der)
    IN  IF block = NilBlock
        THEN Returned(NilObj, NilBlock, NilResp, NoErr, NoReq, FALSE, TRUE, "none")
        ELSE IF block.type # "CERTIFICATE"
        THEN Returned(NilObj, NilBlock, NilResp, ErrCertificateExpected,
                      NoReq, FALSE, TRUE, "none")
        ELSE Returned(pub.obj, NilBlock, NilResp, pub.err, NoReq, FALSE, TRUE,
                      "ParseCertificate")

\* The first block of the wanted type, looking past blocks of other types.
RECURSIVE PemDecodeType(_, _)
PemDecodeType(data, type) ==
    IF data = <<>> THEN NilBlock
    ELSE IF Head(data).kind = "block" /\ Head(data).type = type
         THEN [type |-> Head(data).type, der |-> Head(data).der]
         ELSE PemDecodeType(Tail(data), type)

\* GetCertificate that keeps decoding the rest until a CERTIFICATE block.
GetCertificate_FirstCertificateBlock(d) ==
    LET block == PemDecodeType(d.Certificate, "CERTIFICATE")
        pub == ParseCertificate(block.der)
    IN  IF block = NilBlock \/ block.type # "CERTIFICATE"
        THEN Returned(NilObj, NilBlock, NilResp, ErrCertificateExpected,
                      NoReq, FALSE, TRUE, "none")
        ELSE Returned(pub.obj, NilBlock, NilResp, pub.err, NoReq, FALSE, TRUE,
                      "ParseCertificate")

GetCertificate(d) ==
    LET block == PemDecode(d.Certificate)
        pub == ParseCertificate(block.der)
    IN  IF block = NilBlock \/ block.type # "CERTIFICATE"
        THEN Returned(NilObj, NilBlock, NilResp, ErrCertificateExpected,
                      NoReq, FALSE, TRUE, "none")
        ELSE Returned(pub.obj, NilBlock, NilResp, pub.err, NoReq, FALSE, TRUE,
                      "ParseCertificate")

\* GetPrivateKey whose switch treats every tag but "ec" as "rsa".
GetPrivateKey_UnknownTagAsRSA(d) ==
    LET block == PemDecode(d.PrivateKey)
        invalid == Returned(NilObj, NilBlock, NilResp, ErrInvalidPrivateKey,
                            NoReq, FALSE, TRUE, "none")
        rsa == ParsePKCS1PrivateKey(block.der)
        ec == ParseECPrivateKey(block.der)
    IN  IF block = NilBlock THEN invalid
        ELSE CASE d.PrivateKeyType = "ec" ->
                    IF block.type # "EC PRIVATE KEY" THEN invalid
                    ELSE Returned(ec.obj, NilBlock, NilResp, ec.err, NoReq,
                                  FALSE, TRUE, "ParseECPrivateKey")
               [] OTHER ->
                    IF block.type # "RSA PRIVATE KEY" THEN invalid
                    ELSE Returned(rsa.obj, NilBlock, NilResp, rsa.err, NoReq,
                                  FALSE, TRUE, "ParsePKCS1PrivateKey")

\* GetPrivateKey without the block-type checks inside the switch.
GetPrivateKey_NoTypeCheck(d) ==
    LET block == PemDecode(d.PrivateKey)
        invalid == Returned(NilObj, NilBlock, NilResp, ErrInvalidPrivateKey,
                            NoReq, FALSE, TRUE, "none")
        rsa == ParsePKCS1PrivateKey(block.der)
        ec == ParseECPrivateKey(block.der)
    IN  IF block = NilBlock THEN invalid
        ELSE CASE d.PrivateKeyType = "rsa" ->
                    Returned(rsa.obj, NilBlock, NilResp, rsa.err, NoReq,
                             FALSE, TRUE, "ParsePKCS1PrivateKey")
               [] d.PrivateKeyType = "ec" ->
                    Returned(ec.obj, NilBlock, NilResp, ec.err, NoReq,
                             FALSE, TRUE, "ParseECPrivateKey")
               [] OTHER -> invalid

GetPrivateKey(d) ==
    LET block == PemDecode(d.PrivateKey)
        invalid == Returned(NilObj, NilBlock, NilResp, ErrInvalidPrivateKey,
                            NoReq, FALSE, TRUE, "none")
        rsa == ParsePKCS1PrivateKey(block.der)
        ec == ParseECPrivateKey(block.der)
    IN  IF block = NilBlock THEN invalid
        ELSE CASE d.PrivateKeyType = "rsa" ->
                    IF block.type # "RSA PRIVATE KEY" THEN invalid
                    ELSE Returned(rsa.obj, NilBlock, NilResp, rsa.err, NoReq,
                                  FALSE, TRUE, "ParsePKCS1PrivateKey")
               [] d.PrivateKeyType = "ec" ->
                    IF block.type # "EC PRIVATE KEY" THEN invalid
                    ELSE Returned(ec.obj, NilBlock, NilResp, ec.err, NoReq,
                                  FALSE, TRUE, "ParseECPrivateKey")
               [] OTHER -> invalid

\* ------------------------------------------------------- JSON operations
\* The body is decoded into responseStruct inside client.do; the operation
\* hands out &responseStruct.<Response> only after its own checks.  On an
\* empty result the response handed back is nil (the literal or resp).
\* A JSON operation without the resp == nil check.
jsonOp_NoEmptyCheck(name, kind, options, env) ==
    LET rq == newServiceRequest("POST-or-GET", name, options)
        rs == do(rq.req, env)
    IN  IF rq.err # NoErr
        THEN Returned(NilObj, NilBlock, NilResp, rq.err, NoReq, FALSE, FALSE, "none")
        ELSE IF rs.err # NoErr
        THEN Returned(NilObj, NilBlock, rs.resp, rs.err, rq.req, FALSE, FALSE, "none")
        ELSE Returned([kind |-> kind, from |-> "json"], NilBlock, rs.resp, NoErr,
                      rq.req, FALSE, FALSE, "none")

jsonOp(name, kind, options, env) ==
    LET rq == newServiceRequest("POST-or-GET", name, options)
        rs == do(rq.req, env)
    IN  IF rq.err # NoErr
        THEN Returned(NilObj, NilBlock, NilResp, rq.err, NoReq, FALSE, FALSE, "none")
        ELSE IF rs.err # NoErr
        THEN Returned(NilObj, NilBlock, rs.resp, rs.err, rq.req, FALSE, FALSE, "none")
        ELSE IF rs.resp = NilResp
        THEN Returned(NilObj, NilBlock, NilResp, Errorf(name, ErrEmptyResult),
                      rq.req, FALSE, FALSE, "none")
        ELSE Returned([kind |-> kind, from |-> "json"], NilBlock, rs.resp, NoErr,
                      rq.req, FALSE, FALSE, "none")

\* validate.Struct(signRequest) finds no `validate` tag on SignRequest (its
\* tags are spelled `validation`), so it returns nil for every SignRequest.
Sign(options, env) ==
    jsonOp("Sign", "IssueResponse", options, env)

IssueCertificate(options, env) ==
    jsonOp("IssueCertificate", "IssueResponse", options, env)

RevokeCertificateBySerial(options, env) ==
    jsonOp("RevokeCertificateBySerial", "RevokeResponse", options, env)

GetCertificateBySerial(options, env) ==
    jsonOp("GetCertificateBySerial", "IssueResponse", options, env)

GetCertificates(options, env) ==
    jsonOp("GetCertificates", "CertificateList", options, env)

\* ------------------------------------------------------ IAM RolesService
ErrNotFound == [id |-> "ErrNotFound", wraps |-> "-"]

RequestError == [id |-> "request", wraps |-> "-"]

\* A nil pointer dereference: the call does not return.
Panicked ==
    [Returned(NilObj, NilBlock, NilResp, NoErr, NoReq, FALSE, FALSE, "none")
        EXCEPT !.panicked = TRUE]

\* client.newRequest: a request, or no request and an error.  The headers
\* recorded are the ones the operations set on the request.
newRequest(env) ==
    IF env.buildFails THEN [req |-> NoReq, err |-> RequestError]
    ELSE [req |-> [built |-> TRUE, headers |-> {}], err |-> NoErr]

\* req.Header.Set(name, ...) for each of the names
HeaderSet(req, names) == [req EXCEPT !.headers = @ \cup names]

RoleObj(kind) == [kind |-> kind, from |-> "json"]

GetRoles(env) ==
    LET rq == newRequest(env)
        req == HeaderSet(rq.req, {"api-version", "Content-Type"})
        rs == do(req, env)
    IN  IF rq.err # NoErr
        THEN Returned(NilObj, NilBlock, NilResp, rq.err, NoReq, FALSE, FALSE, "none")
        ELSE IF rs.err # NoErr
        THEN Returned(NilObj, NilBlock, rs.resp, rs.err, req, FALSE, FALSE, "none")
        ELSE Returned(RoleObj("[]Role"), NilBlock, rs.resp, rs.err, req, FALSE, FALSE, "none")

GetRolesByGroupID(env) == GetRoles(env)

\* The decoded role carries the requested ID only when the server sent it.
GetRoleByID(env) ==
    LET rq == newRequest(env)
        req == HeaderSet(rq.req, {"api-version", "Content-Type"})
        rs == do(req, env)
    IN  IF rq.err # NoErr
        THEN Returned(NilObj, NilBlock, NilResp, rq.err, NoReq, FALSE, FALSE, "none")
        ELSE IF rs.err # NoErr
        THEN Returned(NilObj, NilBlock, rs.resp, rs.err, req, FALSE, FALSE, "none")
        ELSE IF ~(env.transport = "ok" /\ env.found)
        THEN Returned(NilObj, NilBlock, rs.resp, ErrNotFound, req, FALSE, FALSE, "none")
        ELSE Returned(RoleObj("Role"), NilBlock, rs.resp, rs.err, req, FALSE, FALSE, "none")

\* req, _ := newRequest(...): the error is dropped and the request is used.
CreateRole(env) ==
    LET rq == newRequest(env)
        req == HeaderSet(rq.req, {"api-version"})
        rs == do(req, env)
    IN  IF ~rq.req.built
        THEN Panicked
        ELSE IF rs.err # NoErr
        THEN Returned(NilObj, NilBlock, rs.resp, rs.err, req, FALSE, FALSE, "none")
        ELSE Returned(RoleObj("Role"), NilBlock, rs.resp, NoErr, req, FALSE, FALSE, "none")

\* The RoleResponse map is filled by client.do from a response body.
RoleResponseOf(rs, env) ==
    IF env.transport = "ok" THEN RoleObj("RoleResponse") ELSE NilObj

DeleteRole(env) ==
    LET rq == newRequest(env)
        req == HeaderSet(rq.req, {"api-version"})
        rs == do(req, env)
    IN  IF rq.err # NoErr
        THEN Returned(NilObj, NilBlock, NilResp, rq.err, NoReq, FALSE, FALSE, "none")
        ELSE Returned(RoleResponseOf(rs, env), NilBlock, rs.resp, rs.err, req,
                      FALSE, FALSE, "none")

GetRolePermissions(env) ==
    LET rq == newRequest(env)
        req == HeaderSet(rq.req, {"api-version"})
        rs == do(req, env)
    IN  IF rq.err # NoErr
        THEN Returned(NilObj, NilBlock, NilResp, rq.err, NoReq, FALSE, FALSE, "none")
        ELSE IF rs.err # NoErr
        THEN Returned(NilObj, NilBlock, rs.resp, rs.err, req, FALSE, FALSE, "none")
        ELSE Returned(RoleObj("[]string"), NilBlock, rs.resp, rs.err, req, FALSE, FALSE, "none")

rolePermissionAction(action, env) ==
    LET rq == newRequest(env)
        req == HeaderSet(rq.req, {"api-version"})
        rs == do(req, env)
    IN  IF rq.err # NoErr
        THEN Returned(NilObj, NilBlock, NilResp, rq.err, NoReq, FALSE, FALSE, "none")
        ELSE IF rs.err # NoErr
        THEN Returned(RoleResponseOf(rs, env), NilBlock, rs.resp, rs.err, req,
                      FALSE, FALSE, "none")
        ELSE Returned(RoleResponseOf(rs, env), NilBlock, rs.resp, NoErr, req,
                      FALSE, FALSE, "none")

AddRolePermission(env) == rolePermissionAction("$assign-permission", env)

RemoveRolePermission(env) == rolePermissionAction("$remove-permission", env)

\* ---------------------------------------------------------------- calls
CAOps == {"GetRootCA", "GetPolicyCA"}

CRLOps == {"GetRootCRL", "GetPolicyCRL"}

JSONOps == {"Sign", "IssueCertificate", "RevokeCertificateBySerial",
            "GetCertificateBySerial", "GetCertificates"}

IAMOps == {"GetRoles", "GetRolesByGroupID", "GetRoleByID", "CreateRole", "DeleteRole",
           "GetRolePermissions", "AddRolePermission", "RemoveRolePermission"}

NoCall ==
    [op |-> "none", options |-> <<>>, transport |-> "ok", readFails |-> FALSE,
     body |-> <<>>, text |-> <<>>, keyType |-> "-", buildFails |-> FALSE,
     found |-> FALSE]

\* The calls a client can make, each with the inputs the operation reads:
\* the caller's options and what the transport does (fetches and JSON
\* operations), or the PEM text and key-type tag of the IssueData.
IsFetchCall(c) ==
    \E o \in CAOps \cup CRLOps, opts \in OptionLists :
        \/ \E b \in Buffers :
              c = [NoCall EXCEPT !.op = o, !.options = opts, !.body = b]
        \/ \E t \in TransportKinds \ {"ok"} :
              c = [NoCall EXCEPT !.op = o, !.options = opts, !.transport = t]
        \/ c = [NoCall EXCEPT !.op = o, !.options = opts, !.readFails = TRUE]

IsJSONCall(c) ==
    \E o \in JSONOps, opts \in OptionLists, t \in TransportKinds :
        c = [NoCall EXCEPT !.op = o, !.options = opts, !.transport = t]

IsDecodeCall(c) ==
    \E b \in Buffers :
        \/ c = [NoCall EXCEPT !.op = "GetCertificate", !.text = b]
        \/ \E k \in KeyTypeTags :
              c = [NoCall EXCEPT !.op = "GetPrivateKey", !.text = b, !.keyType = k]

IsIAMCall(c) ==
    \E o \in IAMOps, t \in TransportKinds, f \in BOOLEAN, g \in BOOLEAN :
        c = [NoCall EXCEPT !.op = o, !.transport = t, !.buildFails = f, !.found = g]

IAMEnv(c) == [transport |-> c.transport, buildFails |-> c.buildFails, found |-> c.found]

Env(c) == [transport |-> c.transport, readFails |-> c.readFails, body |-> c.body]

\* The IssueData of a call, as far as the decoders read it.
IssueDataOf(c) ==
    [Certificate |-> c.text, PrivateKey |-> c.text, PrivateKeyType |-> c.keyType]

\* -------------------------------------------------- concurrent decoders
Callers == 1..NumCallers

NoIssueData == [Certificate |-> <<>>, PrivateKey |-> <<>>, PrivateKeyType |-> "-"]

\* The IssueData values the concurrent callers share: one-item texts.
SharedCertTexts ==
    {<<>>} \cup {<<i>> : i \in {j \in Items :
        j.kind = "block" => /\ j.type \in {"CERTIFICATE", "X509 CRL"}
                            /\ j.der \in {"x509cert", "garbage"}}}

SharedKeyTexts ==
    {<<>>} \cup {<<i>> : i \in {j \in Items :
        j.kind = "block" => /\ j.type \in {"RSA PRIVATE KEY", "EC PRIVATE KEY"}
                            /\ j.der \in {"pkcs1", "sec1"}}}

SharedIssueData ==
    [Certificate : SharedCertTexts, PrivateKey : SharedKeyTexts,
     PrivateKeyType : KeyTypeTags]

\* ------------------------------------------------------- specification
Init ==
    /\ IsFetchCall(call) \/ IsJSONCall(call) \/ IsDecodeCall(call) \/ IsIAMCall(call)
    /\ ret = NotCalled
    /\ issueData = NoIssueData
    /\ cpc = [p \in Callers |-> "idle"]
    /\ cop = [p \in Callers |-> "none"]
    /\ cblock = [p \in Callers |-> NilBlock]
    /\ cret = [p \in Callers |-> NotCalled]

Pending(o) == call.op = o /\ ~ret.returned

CallGetRootCA ==
    /\ Pending("GetRootCA")
    /\ ret' = GetRootCA(call.options, Env(call))
    /\ UNCHANGED <<call, concVars>>

CallGetPolicyCA ==
    /\ Pending("GetPolicyCA")
    /\ ret' = GetPolicyCA(call.options, Env(call))
    /\ UNCHANGED <<call, concVars>>

CallGetRootCRL ==
    /\ Pending("GetRootCRL")
    /\ ret' = GetRootCRL(call.options, Env(call))
    /\ UNCHANGED <<call, concVars>>

CallGetPolicyCRL ==
    /\ Pending("GetPolicyCRL")
    /\ ret' = GetPolicyCRL(call.options, Env(call))
    /\ UNCHANGED <<call, concVars>>

CallGetCertificate ==
    /\ Pending("GetCertificate")
    /\ ret' = GetCertificate(IssueDataOf(call))
    /\ UNCHANGED <<call, concVars>>

CallGetPrivateKey ==
    /\ Pending("GetPrivateKey")
    /\ ret' = GetPrivateKey(IssueDataOf(call))
    /\ UNCHANGED <<call, concVars>>

CallSign ==
    /\ Pending("Sign")
    /\ ret' = Sign(call.options, Env(call))
    /\ UNCHANGED <<call, concVars>>

CallIssueCertificate ==
    /\ Pending("IssueCertificate")
    /\ ret' = IssueCertificate(call.options, Env(call))
    /\ UNCHANGED <<call, concVars>>

CallRevokeCertificateBySerial ==
    /\ Pending("RevokeCertificateBySerial")
    /\ ret' = RevokeCertificateBySerial(call.options, Env(call))
    /\ UNCHANGED <<call, concVars>>

CallGetCertificateBySerial ==
    /\ Pending("GetCertificateBySerial")
    /\ ret' = GetCertificateBySerial(call.options, Env(call))
    /\ UNCHANGED <<call, concVars>>

CallGetCertificates ==
    /\ Pending("GetCertificates")
    /\ ret' = GetCertificates(call.options, Env(call))
    /\ UNCHANGED <<call, concVars>>

CallGetRoles ==
    /\ Pending("GetRoles")
    /\ ret' = GetRoles(IAMEnv(call))
    /\ UNCHANGED <<call, concVars>>

CallGetRolesByGroupID ==
    /\ Pending("GetRolesByGroupID")
    /\ ret' = GetRolesByGroupID(IAMEnv(call))
    /\ UNCHANGED <<call, concVars>>

CallGetRoleByID ==
    /\ Pending("GetRoleByID")
    /\ ret' = GetRoleByID(IAMEnv(call))
    /\ UNCHANGED <<call, concVars>>

CallCreateRole ==
    /\ Pending("CreateRole")
    /\ ret' = CreateRole(IAMEnv(call))
    /\ UNCHANGED <<call, concVars>>

CallDeleteRole ==
    /\ Pending("DeleteRole")
    /\ ret' = DeleteRole(IAMEnv(call))
    /\ UNCHANGED <<call, concVars>>

CallGetRolePermissions ==
    /\ Pending("GetRolePermissions")
    /\ ret' = GetRolePermissions(IAMEnv(call))
    /\ UNCHANGED <<call, concVars>>

CallAddRolePermission ==
    /\ Pending("AddRolePermission")
    /\ ret' = AddRolePermission(IAMEnv(call))
    /\ UNCHANGED <<call, concVars>>

CallRemoveRolePermission ==
    /\ Pending("RemoveRolePermission")
    /\ ret' = RemoveRolePermission(IAMEnv(call))
    /\ UNCHANGED <<call, concVars>>

Next ==
    \/ CallGetRootCA
    \/ CallGetPolicyCA
    \/ CallGetRootCRL
    \/ CallGetPolicyCRL
    \/ CallGetCertificate
    \/ CallGetPrivateKey
    \/ CallSign
    \/ CallIssueCertificate
    \/ CallRevokeCertificateBySerial
    \/ CallGetCertificateBySerial
    \/ CallGetCertificates
    \/ CallGetRoles
    \/ CallGetRolesByGroupID
    \/ CallGetRoleByID
    \/ CallCreateRole
    \/ CallDeleteRole
    \/ CallGetRolePermissions
    \/ CallAddRolePermission
    \/ CallRemoveRolePermission

Spec == Init /\ [][Next]_vars

\* ------------------------------- concurrent calls on one shared IssueData
\* Each caller runs GetCertificate or GetPrivateKey statement by statement;
\* cpc is the source line the caller is about to execute.
InitConc ==
    /\ call = NoCall
    /\ ret = NotCalled
    /\ issueData \in SharedIssueData
    /\ cpc = [p \in Callers |-> "idle"]
    /\ cop = [p \in Callers |-> "none"]
    /\ cblock = [p \in Callers |-> NilBlock]
    /\ cret = [p \in Callers |-> NotCalled]

Goto(p, from, to) ==
    /\ cpc[p] = from
    /\ cpc' = [cpc EXCEPT ![p] = to]

Return(p, from, r) ==
    /\ Goto(p, from, "done")
    /\ cret' = [cret EXCEPT ![p] = r]

StartGetCertificate(p) ==
    /\ Goto(p, "idle", "L174")
    /\ cop' = [cop EXCEPT ![p] = "GetCertificate"]
    /\ UNCHANGED <<seqVars, issueData, cblock, cret>>

\* block, _ := pem.Decode([]byte(d.Certificate))
CertPemDecode(p) ==
    /\ Goto(p, "L174", "L175")
    /\ cblock' = [cblock EXCEPT ![p] = PemDecode(issueData.Certificate)]
    /\ UNCHANGED <<seqVars, issueData, cop, cret>>

\* if block == nil || block.Type != "CERTIFICATE" { return nil, Err... }
CertCheckBlock(p) ==
    /\ IF cblock[p] = NilBlock \/ cblock[p].type # "CERTIFICATE"
       THEN Return(p, "L175", Returned(NilObj, NilBlock, NilResp,
                       ErrCertificateExpected, NoReq, FALSE, TRUE, "none"))
       ELSE Goto(p, "L175", "L178") /\ UNCHANGED cret
    /\ UNCHANGED <<seqVars, issueData, cop, cblock>>

\* return x509.ParseCertificate(block.Bytes)
CertParse(p) ==
    /\ LET pub == ParseCertificate(cblock[p].der)
       IN  Return(p, "L178", Returned(pub.obj, NilBlock, NilResp, pub.err, NoReq,
                                      FALSE, TRUE, "ParseCertificate"))
    /\ UNCHANGED <<seqVars, issueData, cop, cblock>>

StartGetPrivateKey(p) ==
    /\ Goto(p, "idle", "L182")
    /\ cop' = [cop EXCEPT ![p] = "GetPrivateKey"]
    /\ UNCHANGED <<seqVars, issueData, cblock, cret>>

\* block, _ := pem.Decode([]byte(d.PrivateKey))
KeyPemDecode(p) ==
    /\ Goto(p, "L182", "L183")
    /\ cblock' = [cblock EXCEPT ![p] = PemDecode(issueData.PrivateKey)]
    /\ UNCHANGED <<seqVars, issueData, cop, cret>>

\* if block == nil { return nil, ErrInvalidPrivateKey }
KeyCheckNil(p) ==
    /\ IF cblock[p] = NilBlock
       THEN Return(p, "L183", Returned(NilObj, NilBlock, NilResp,
                       ErrInvalidPrivateKey, NoReq, FALSE, TRUE, "none"))
       ELSE Goto(p, "L183", "L186") /\ UNCHANGED cret
    /\ UNCHANGED <<seqVars, issueData, cop, cblock>>

\* KeySwitch that wipes the key text of the IssueData once it has the block.
KeySwitch_ClearsKey(p) ==
    /\ LET block == cblock[p]
           invalid == Returned(NilObj, NilBlock, NilResp, ErrInvalidPrivateKey,
                               NoReq, FALSE, TRUE, "none")
           rsa == ParsePKCS1PrivateKey(block.der)
           ec == ParseECPrivateKey(block.der)
       IN  Return(p, "L186",
             CASE issueData.PrivateKeyType = "rsa" ->
                    IF block.type # "RSA PRIVATE KEY" THEN invalid
                    ELSE Returned(rsa.obj, NilBlock, NilResp, rsa.err, NoReq,
                                  FALSE, TRUE, "ParsePKCS1PrivateKey")
               [] issueData.PrivateKeyType = "ec" ->
                    IF block.type # "EC PRIVATE KEY" THEN invalid
                    ELSE Returned(ec.obj, NilBlock, NilResp, ec.err, NoReq,
                                  FALSE, TRUE, "ParseECPrivateKey")
               [] OTHER -> invalid)
    /\ issueData' = [issueData EXCEPT !.PrivateKey = <<>>]
    /\ UNCHANGED <<seqVars, cop, cblock>>

\* switch d.PrivateKeyType { ... } and the final return
KeySwitch(p) ==
    /\ LET block == cblock[p]
           invalid == Returned(NilObj, NilBlock, NilResp, ErrInvalidPrivateKey,
                               NoReq, FALSE, TRUE, "none")
           rsa == ParsePKCS1PrivateKey(block.der)
           ec == ParseECPrivateKey(block.der)
       IN  Return(p, "L186",
             CASE issueData.PrivateKeyType = "rsa" ->
                    IF block.type # "RSA PRIVATE KEY" THEN invalid
                    ELSE Returned(rsa.obj, NilBlock, NilResp, rsa.err, NoReq,
                                  FALSE, TRUE, "ParsePKCS1PrivateKey")
               [] issueData.PrivateKeyType = "ec" ->
                    IF block.type # "EC PRIVATE KEY" THEN invalid
                    ELSE Returned(ec.obj, NilBlock, NilResp, ec.err, NoReq,
                                  FALSE, TRUE, "ParseECPrivateKey")
               [] OTHER -> invalid)
    /\ UNCHANGED <<seqVars, issueData, cop, cblock>>

\* The caller takes the result and is free to call again.
Finish(p) ==
    /\ Goto(p, "done", "idle")
    /\ cop' = [cop EXCEPT ![p] = "none"]
    /\ cblock' = [cblock EXCEPT ![p] = NilBlock]
    /\ cret' = [cret EXCEPT ![p] = NotCalled]
    /\ UNCHANGED <<seqVars, issueData>>

NextConc ==
    \E p \in Callers :
        \/ StartGetCertificate(p)
        \/ CertPemDecode(p)
        \/ CertCheckBlock(p)
        \/ CertParse(p)
        \/ StartGetPrivateKey(p)
        \/ KeyPemDecode(p)
        \/ KeyCheckNil(p)
        \/ KeySwitch(p)
        \/ Finish(p)

SpecConc == InitConc /\ [][NextConc]_vars

\* ======================================================================
\* Properties
\* ======================================================================
FetchOps == CAOps \cup CRLOps

DecodeOps == FetchOps \cup {"GetCertificate", "GetPrivateKey"}

CertificateOps == CAOps \cup {"GetCertificate"}

\* The call has returned after running pem.Decode on its text.
Decoded == ret.returned /\ call.op \in DecodeOps /\ ret.pemDecoded

TextOf(c) == IF c.op \in FetchOps THEN c.body ELSE c.text

WithText(c, t) == IF c.op \in FetchOps THEN [c EXCEPT !.body = t] ELSE [c EXCEPT !.text = t]

ResultOf(c) ==
    CASE c.op = "GetRootCA" -> GetRootCA(c.options, Env(c))
      [] c.op = "GetPolicyCA" -> GetPolicyCA(c.options, Env(c))
      [] c.op = "GetRootCRL" -> GetRootCRL(c.options, Env(c))
      [] c.op = "GetPolicyCRL" -> GetPolicyCRL(c.options, Env(c))
      [] c.op = "GetCertificate" -> GetCertificate(IssueDataOf(c))
      [] c.op = "GetPrivateKey" -> GetPrivateKey(IssueDataOf(c))
      [] OTHER -> NotCalled

BlockIndexes(text) == {i \in 1..Len(text) : text[i].kind = "block"}

FirstBlockIndex(text) == CHOOSE i \in BlockIndexes(text) : \A j \in BlockIndexes(text) : i <= j

\* The first well-formed block of a text, read off the text by position.
FirstBlockOf(text) ==
    IF BlockIndexes(text) = {} THEN NilBlock
    ELSE [type |-> text[FirstBlockIndex(text)].type, der |-> text[FirstBlockIndex(text)].der]

UpToFirstBlock(text) ==
    IF BlockIndexes(text) = {} THEN text ELSE SubSeq(text, 1, FirstBlockIndex(text))

RequiredType(c) ==
    CASE c.op \in CertificateOps -> "CERTIFICATE"
      [] c.op \in CRLOps -> "X509 CRL"
      [] c.op = "GetPrivateKey" /\ c.keyType = "rsa" -> "RSA PRIVATE KEY"
      [] c.op = "GetPrivateKey" /\ c.keyType = "ec" -> "EC PRIVATE KEY"
      [] OTHER -> "(none)"

RequiredPayload(c) ==
    CASE c.op \in CertificateOps -> "x509cert"
      [] c.op \in CRLOps -> "crl"
      [] c.op = "GetPrivateKey" /\ c.keyType = "rsa" -> "pkcs1"
      [] c.op = "GetPrivateKey" /\ c.keyType = "ec" -> "sec1"
      [] OTHER -> "(none)"

BlockTypeError(c) ==
    CASE c.op \in CertificateOps -> ErrCertificateExpected
      [] c.op \in CRLOps -> ErrCRLExpected
      [] OTHER -> ErrInvalidPrivateKey

\* The spec's error kind for an unrecognised key-type tag.
UnsupportedKeyType == [id |-> "UnsupportedKeyType", wraps |-> "-"]

UnknownTag == Decoded /\ call.op = "GetPrivateKey" /\ call.keyType \notin {"rsa", "ec"}

\* C1 (as claimed): GetPrivateKey with a key-type tag other than "rsa"/"ec"
\* fails with UnsupportedKeyType, and does so before any PEM decoding.
C1_UnsupportedBeforeDecode ==
    (ret.returned /\ call.op = "GetPrivateKey" /\ call.keyType \notin {"rsa", "ec"})
        => (ret.err = UnsupportedKeyType /\ ~ret.pemDecoded)

\* C1 (amended): GetPrivateKey with a key-type tag other than "rsa"/"ec"
\* fails with ErrInvalidPrivateKey after having run pem.Decode on the key
\* text; no DER parser runs and the outcome is the same for every key text.
C1_UnknownTagInvalidPrivateKey ==
    (ret.returned /\ call.op = "GetPrivateKey" /\ call.keyType \notin {"rsa", "ec"})
        => ret = Returned(NilObj, NilBlock, NilResp, ErrInvalidPrivateKey,
                          NoReq, FALSE, TRUE, "none")

C1_Witness ==
    /\ UnknownTag
    /\ call.keyType = "dsa"
    /\ FirstBlockOf(call.text) = [type |-> "RSA PRIVATE KEY", der |-> "pkcs1"]

WrongKeyBlock ==
    /\ Decoded
    /\ call.op = "GetPrivateKey"
    /\ call.keyType \in {"rsa", "ec"}
    /\ FirstBlockOf(call.text) # NilBlock
    /\ FirstBlockOf(call.text).type # RequiredType(call)

\* C2 (as claimed): for key type rsa/ec, a well-formed first block of another
\* type fails with an error distinct from the InvalidPrivateKey error that
\* is returned when there is no PEM block.
C2_WrongBlockDistinctError ==
    WrongKeyBlock => (ret.err # NoErr /\ ret.err # ErrInvalidPrivateKey)

\* C2 (amended): for key type rsa/ec, a well-formed first block of another
\* type fails with ErrInvalidPrivateKey, the same error as when there is no
\* PEM block, and no key is returned.
C2_WrongBlockInvalidPrivateKey ==
    WrongKeyBlock =>
        /\ ret.err = ErrInvalidPrivateKey
        /\ ret.err = ResultOf(WithText(call, <<>>)).err
        /\ ret.obj = NilObj

C2_Witness ==
    /\ WrongKeyBlock
    /\ call.keyType = "rsa"
    /\ FirstBlockOf(call.text).type = "EC PRIVATE KEY"

TypeMismatch ==
    /\ Decoded
    /\ FirstBlockOf(TextOf(call)) # NilBlock
    /\ FirstBlockOf(TextOf(call)).type # RequiredType(call)

\* C3: in every decode operation, when the first block's type is not the
\* required one, no DER parser is invoked and the error returned is the
\* operation's block-type error, never an x509 parse error, whatever the
\* payload is.
C3_TypeCheckPrecedesParse ==
    TypeMismatch =>
        /\ ret.derParsed = "none"
        /\ ret.err = BlockTypeError(call)
        /\ ret.err.id # "x509"

C3_Witness ==
    /\ TypeMismatch
    /\ call.op = "GetPrivateKey"
    /\ call.keyType = "ec"
    /\ FirstBlockOf(call.text) = [type |-> "RSA PRIVATE KEY", der |-> "pkcs1"]

CrossType ==
    /\ Decoded
    /\ \/ call.op \in CertificateOps /\ FirstBlockOf(TextOf(call)).type = "X509 CRL"
       \/ call.op \in CRLOps /\ FirstBlockOf(TextOf(call)).type = "CERTIFICATE"

\* C4 (as claimed): a certificate decode of a CRL block, and a CRL decode of
\* a certificate block, fail with an error that differs from the error
\* returned when no PEM block is found.
C4_CrossTypeDistinctError ==
    CrossType =>
        /\ ret.err # NoErr
        /\ ret.err # ResultOf(WithText(call, <<>>)).err

\* C4 (amended): a certificate decode of a CRL block fails with
\* ErrCertificateExpected and a CRL decode of a certificate block fails with
\* ErrCRLExpected; that is the same error the operation returns when no PEM
\* block is found, and nothing decoded is returned.
C4_CrossTypeExpectedError ==
    CrossType =>
        /\ ret.err = BlockTypeError(call)
        /\ ret.err = ResultOf(WithText(call, <<>>)).err
        /\ ret.obj = NilObj
        /\ ret.block = NilBlock

C4_Witness ==
    /\ CrossType
    /\ call.op = "GetRootCRL"
    /\ FirstBlockOf(call.body) = [type |-> "CERTIFICATE", der |-> "x509cert"]

NoBlockFound ==
    /\ Decoded
    /\ call.op \in CertificateOps \cup CRLOps
    /\ BlockIndexes(TextOf(call)) = {}

\* C5: certificate and CRL decoding of a text in which no PEM block can be
\* found (empty, no BEGIN marker, undecodable base64) fails with the
\* operation's no-block error (ErrCertificateExpected, ErrCRLExpected) and
\* returns no decoded object.
C5_NoBlockFails ==
    NoBlockFound =>
        /\ ret.err = BlockTypeError(call)
        /\ ret.obj = NilObj
        /\ ret.block = NilBlock
        /\ ret.derParsed = "none"

C5_Witness ==
    /\ NoBlockFound
    /\ call.op = "GetCertificate"
    /\ call.text = <<JunkItem, BadBase64Item>>

\* C6 (as claimed): a decode operation returns either a nil error with every
\* decoded artifact populated, or an error with no decoded artifact at all
\* (typed object and PEM block both absent).
C6_NoPartialResult ==
    (ret.returned /\ call.op \in DecodeOps) =>
        \/ /\ ret.err = NoErr
           /\ ret.obj # NilObj
           /\ call.op \in FetchOps => ret.block # NilBlock
        \/ /\ ret.err # NoErr
           /\ ret.obj = NilObj
           /\ ret.block = NilBlock

EmptyTransport ==
    /\ ret.returned
    /\ call.op \in FetchOps \cup JSONOps
    /\ call.transport = "empty"
    /\ ret.sent.built

\* C7: when the transport returns neither response nor error, every service
\* operation fails with an error wrapping ErrEmptyResult, returns no domain
\* object, block or response, reads and decodes no body, and the error is
\* none of the decode-failure errors.
C7_EmptyResult ==
    EmptyTransport =>
        /\ ret.err # NoErr
        /\ ErrorsIs(ret.err, ErrEmptyResult)
        /\ ret.obj = NilObj /\ ret.block = NilBlock /\ ret.resp = NilResp
        /\ ~ret.bodyRead /\ ~ret.pemDecoded /\ ret.derParsed = "none"
        /\ \A e \in {ErrCertificateExpected, ErrCRLExpected, ErrInvalidPrivateKey} :
              ~ErrorsIs(ret.err, e)
        /\ ret.err.id # "x509"

C7_Witness == EmptyTransport /\ call.op = "Sign" /\ ret.err = Errorf("Sign", ErrEmptyResult)

\* C8: the outcome of a decode operation depends only on the first block of
\* the text: it succeeds exactly when that block has the required type and
\* a payload that parses, it returns that block's content, and it is the
\* same as for the text cut off after the first block.
C8_FirstBlockOnly ==
    Decoded =>
        LET fb == FirstBlockOf(TextOf(call))
        IN  /\ ret.err = NoErr <=> /\ fb # NilBlock
                                   /\ fb.type = RequiredType(call)
                                   /\ fb.der = RequiredPayload(call)
            /\ ret.err = NoErr => ret.obj.from = fb.der
            /\ (ret.err = NoErr /\ call.op \in FetchOps) => ret.block = fb
            /\ ret = ResultOf(WithText(call, UpToFirstBlock(TextOf(call))))

C8_Witness ==
    /\ Decoded
    /\ call.op = "GetCertificate"
    /\ Len(call.text) >= 2
    /\ call.text[1] = [kind |-> "block", type |-> "X509 CRL", der |-> "crl"]
    /\ call.text[2] = [kind |-> "block", type |-> "CERTIFICATE", der |-> "x509cert"]
    /\ ret.err = ErrCertificateExpected

\* What a call returns when it runs alone on the IssueData d.
Alone(o, d) == IF o = "GetCertificate" THEN GetCertificate(d) ELSE GetPrivateKey(d)

\* C9: under every interleaving of concurrent GetCertificate/GetPrivateKey
\* calls on one IssueData, no step writes the IssueData and every call
\* returns what it returns when run alone.
C9_ConcurrentCallsIndependent ==
    [][/\ issueData' = issueData
       /\ \A p \in Callers :
            cpc'[p] = "done" => cret'[p] = Alone(cop'[p], issueData)]_vars

C9_Witness ==
    /\ cpc[1] = "done" /\ cop[1] = "GetPrivateKey" /\ cret[1].err = NoErr
    /\ cpc[2] = "L178" /\ cop[2] = "GetCertificate"

\* C10: the request a public CA/CRL fetch hands to the transport carries no
\* Authorization header, whatever options the caller supplied.
C10_NoAuthorizationHeader ==
    (ret.returned /\ call.op \in FetchOps /\ ret.sent.built) =>
        "Authorization" \notin ret.sent.headers

C10_Witness ==
    /\ ret.returned
    /\ call.op = "GetPolicyCRL"
    /\ ret.sent.built
    /\ call.options # <<>>
    /\ call.options[Len(call.options)] = "SetAuthorization"

\* Request construction failed: an option returned an error (PKI), or
\* client.newRequest returned an error (IAM).
RequestFailed ==
    \/ /\ call.op \in FetchOps \cup JSONOps
       /\ \E i \in 1..Len(call.options) : call.options[i] = "Fail"
    \/ call.op \in IAMOps /\ call.buildFails

\* C11 (as claimed): when building the request fails, every PKI and IAM
\* operation returns that error with nil result and nil response, does not
\* touch the absent request and does not call the transport.
C11_EarlyExitOnRequestError ==
    (ret.returned /\ RequestFailed) =>
        /\ ~ret.panicked
        /\ ret.err = (IF call.op \in IAMOps THEN RequestError ELSE OptionError)
        /\ ret.obj = NilObj
        /\ ret.resp = NilResp
        /\ ~ret.sent.built

====
